---- MODULE Spec2Model ----
(***************************************************************************)
(* Tile editor of the 79BI dashboard application.                          *)
(*                                                                         *)
(* The repository holds three copies of the TileEditor component:          *)
(*   "A"  frontend/src/components/TileEditor.tsx, lines 1-1248             *)
(*   "B"  frontend/src/components/TileEditor.tsx, lines 1250-2432          *)
(*   "C"  unnamed/part_000, lines 43-1016                                  *)
(* The variable copy says which of them is running; every handler is       *)
(* translated from that copy's code.                                       *)
(*                                                                         *)
(* Strings are TLA+ strings; Len, \o, Head, Tail and SubSeq act on them    *)
(* as on sequences of characters.                                          *)
(***************************************************************************)
EXTENDS Integers, Sequences, FiniteSets, TLC

VARIABLES
    copy,            \* which copy of the component is mounted
    open,            \* the open prop of the dialog
    tile,            \* the tile prop: NoTile or the persisted tile being edited
    name,            \* useState('') title of the tile
    tileType,        \* useState('chart') UI kind
    chartType,       \* useState('bar')
    connectionId,    \* useState('')
    connections,     \* useState([]) the connections offered in the drop-down
    textRows,        \* useState([{id:'1', type:'header', content:'', isQuery:false}])
    isQueryMode,     \* useState(false)
    customQuery,     \* useState('')
    databaseFields,  \* useState([]) the selectable field pool
    dimensions,      \* useState([])
    measures,        \* useState([])
    fieldTableMap,   \* useState(new Map()) fieldId -> source table
    loading,         \* useState(false)
    saving,          \* useState(false)
    error,           \* useState('')
    schemaFetches,   \* schema requests in flight, oldest first
    connFetch,       \* TRUE while getAllConnections is in flight
    saveCall,        \* the DTO handed to createTile/updateTile and not yet answered
    persisted,       \* the tile the backend stores (NoTile before the first save)
    lastCall,        \* the handler that ran last, with its argument
    sqlQuery         \* the string generateSqlQuery returned last

vars == <<copy, open, tile, name, tileType, chartType, connectionId, connections, textRows,
          isQueryMode, customQuery, databaseFields, dimensions, measures,
          fieldTableMap, loading, saving, error, schemaFetches, connFetch,
          saveCall, persisted, lastCall, sqlQuery>>

(***************************************************************************)
(* Bounds of the model.                                                    *)
(***************************************************************************)
MaxSel == 2          \* longest dimension list and measure list
MaxFetches == 2      \* schema requests in flight at once

Copies == {"A", "B", "C"}

NoTile == [id |-> "none"]
NoSave == [method |-> "none"]
NoCall == [op |-> "none"]
NotGenerated == "<not generated>"

(***************************************************************************)
(* JavaScript string helpers.                                              *)
(***************************************************************************)
Upper == <<"A","B","C","D","E","F","G","H","I","J","K","L","M",
           "N","O","P","Q","R","S","T","U","V","W","X","Y","Z">>
Lower == <<"a","b","c","d","e","f","g","h","i","j","k","l","m",
           "n","o","p","q","r","s","t","u","v","w","x","y","z">>

\* String.prototype.toLowerCase on one character
toLowerChar(c) ==
    IF \E i \in 1..26 : Upper[i] = c
    THEN Lower[CHOOSE i \in 1..26 : Upper[i] = c]
    ELSE c

RECURSIVE toLowerCase(_)
toLowerCase(s) ==
    IF s = "" THEN "" ELSE toLowerChar(Head(s)) \o toLowerCase(Tail(s))

\* String.prototype.includes
includes(s, sub) ==
    \E i \in 1..(Len(s) - Len(sub) + 1) : SubSeq(s, i, i + Len(sub) - 1) = sub

isSpace(c) == c \in {" ", "\n", "\t"}

RECURSIVE trimStart(_)
trimStart(s) ==
    IF s = "" THEN ""
    ELSE IF isSpace(Head(s)) THEN trimStart(Tail(s)) ELSE s

RECURSIVE trimEnd(_)
trimEnd(s) ==
    IF s = "" THEN ""
    ELSE IF isSpace(SubSeq(s, Len(s), Len(s)))
         THEN trimEnd(SubSeq(s, 1, Len(s) - 1)) ELSE s

\* String.prototype.trim
trim(s) == trimEnd(trimStart(s))

\* Array.prototype.join
RECURSIVE join(_, _)
join(xs, sep) ==
    IF xs = <<>> THEN ""
    ELSE IF Len(xs) = 1 THEN xs[1]
    ELSE xs[1] \o sep \o join(Tail(xs), sep)

Range(f) == {f[x] : x \in DOMAIN f}

\* all sequences over S of length at most n
SeqsUpTo(S, n) == UNION {[1..k -> S] : k \in 0..n}

\* an optional property of a JavaScript object
Has(obj, key) == key \in DOMAIN obj

(***************************************************************************)
(* isNumericField                                                          *)
(***************************************************************************)
numericTypesA == <<"int", "integer", "number", "float", "double", "decimal",
                   "numeric", "bigint", "smallint", "real">>
numericTypesBC == <<"number", "integer", "int", "float", "decimal", "double",
                    "numeric">>

\* field.type.toLowerCase() on a field without type: a TypeError in the copies
\* that lack the guard if (!field || !field.type) return false
isNumericFieldThrows(c, field) == c # "A" /\ ~Has(field, "type")

isNumericField(c, field) ==
    IF c = "A"
    THEN IF ~Has(field, "type") \/ field.type = "" THEN FALSE
         ELSE \E i \in DOMAIN numericTypesA :
                 includes(toLowerCase(field.type), numericTypesA[i])
    ELSE /\ Has(field, "type")
         /\ \E i \in DOMAIN numericTypesBC :
                 includes(toLowerCase(field.type), numericTypesBC[i])

(***************************************************************************)
(* generateSqlQuery and its locals                                         *)
(***************************************************************************)
\* fieldTableMap.get(id) || 'unknown_table'
tableOf(map, id) ==
    IF id \in DOMAIN map /\ map[id] # "" THEN map[id] ELSE "unknown_table"

dimensionColumns(dims, map) ==
    [i \in DOMAIN dims |-> tableOf(map, dims[i].fieldId) \o "." \o dims[i].fieldName]

\* the alias ignored in favour of the field name
aliasTextFieldName(c, measure) == measure.fieldName

\* `${measure.alias || measure.fieldName}` in copy A, `${measure.alias}` in B and C
aliasText(c, measure) ==
    IF c = "A"
    THEN IF Has(measure, "alias") /\ measure.alias # ""
         THEN measure.alias ELSE measure.fieldName
    ELSE IF Has(measure, "alias") THEN measure.alias ELSE "undefined"

measureColumns(c, meas, map) ==
    [i \in DOMAIN meas |->
        meas[i].aggregation \o "(" \o tableOf(map, meas[i].fieldId) \o "."
          \o meas[i].fieldName \o ") as " \o aliasText(c, meas[i])]

\* Array.from(new Set(xs)): first occurrences, in order
RECURSIVE distinct(_)
distinct(xs) ==
    IF xs = <<>> THEN <<>>
    ELSE LET front == distinct(SubSeq(xs, 1, Len(xs) - 1))
             x == xs[Len(xs)]
         IN  IF x \in Range(front) THEN front ELSE Append(front, x)

tablesList(dims, meas, map) ==
    distinct([i \in DOMAIN dims |-> tableOf(map, dims[i].fieldId)]
             \o [i \in DOMAIN meas |-> tableOf(map, meas[i].fieldId)])

\* the two column groups spread in the wrong order
selectClauseMeasuresFirst(c, dims, meas, map) ==
    join(measureColumns(c, meas, map) \o dimensionColumns(dims, map), ", ")

selectClause(c, dims, meas, map) ==
    join(dimensionColumns(dims, map) \o measureColumns(c, meas, map), ", ")

\* the grouping columns written without their tables
groupByClauseBareNames(dims, map) ==
    IF Len(dims) > 0
    THEN "GROUP BY " \o join([i \in DOMAIN dims |-> dims[i].fieldName], ", ")
    ELSE ""

groupByClause(dims, map) ==
    IF Len(dims) > 0 THEN "GROUP BY " \o join(dimensionColumns(dims, map), ", ")
    ELSE ""

JoinMarker == "/* JOIN logic needed for multiple tables */"

\* the emptiness guard written with && instead of ||
generateSqlQueryAndGuard(c, dims, meas, map) ==
    IF Len(dims) = 0 /\ Len(meas) = 0 THEN ""
    ELSE "SELECT " \o selectClause(c, dims, meas, map) \o " FROM "
           \o tablesList(dims, meas, map)[1] \o " " \o groupByClause(dims, map)

generateSqlQueryOf(c, dims, meas, map) ==
    IF Len(dims) = 0 \/ Len(meas) = 0 THEN ""
    ELSE LET tl == tablesList(dims, meas, map)
             fromClause == tl[1]
         IN  IF c = "A"
             THEN "SELECT " \o selectClause(c, dims, meas, map) \o " \nFROM "
                    \o fromClause \o " \n" \o groupByClause(dims, map)
             ELSE "SELECT " \o selectClause(c, dims, meas, map) \o " FROM "
                    \o fromClause \o " "
                    \o (IF Len(tl) > 1 THEN JoinMarker ELSE "")
                    \o " " \o groupByClause(dims, map)

generateSqlQuery == generateSqlQueryOf(copy, dimensions, measures, fieldTableMap)

(***************************************************************************)
(* The schema snapshots the backend serves, already flattened.             *)
(***************************************************************************)
Connections == {"c1", "c2"}

SchemaOf(conn) ==
    IF conn = "c1"
    THEN << [name |-> "region", type |-> "VARCHAR", table |-> "orders"],
            [name |-> "amount", type |-> "BIGINT",  table |-> "orders"],
            [name |-> "amount", type |-> "numeric", table |-> "customers"] >>
    ELSE << [name |-> "price",  type |-> "REAL",    table |-> "items"] >>

AllFields == UNION {Range(SchemaOf(conn)) : conn \in Connections}

Aggregations == {"sum", "avg", "min", "max", "count"}

\* the aggregations the model lets the user pick
AggregationChoices == {"avg"}

(***************************************************************************)
(* SpecSql: generateSqlQuery applied to every selection and every map of a *)
(* bounded input space.                                                    *)
(***************************************************************************)
SqlDimensionItems ==
    { [fieldId |-> "orders.region",    fieldName |-> "region"],
      [fieldId |-> "customers.amount", fieldName |-> "amount"] }

SqlMeasureItems ==
    { [fieldId |-> "amount", fieldName |-> "amount", aggregation |-> "sum",
       alias |-> "amount_sum"],
      [fieldId |-> "amount", fieldName |-> "amount", aggregation |-> "avg",
       alias |-> "amount_sum"],
      [fieldId |-> "price", fieldName |-> "price", aggregation |-> "count"] }

SqlMapKeys == {"orders.region", "customers.amount", "amount", "price"}
SqlTables == {"orders", "customers"}

SqlMaps == UNION {[ks -> SqlTables] : ks \in SUBSET SqlMapKeys}

InitialTextRows ==
    << [id |-> "1", type |-> "header", content |-> "", isQuery |-> FALSE] >>

\* the state of a freshly mounted component
Mounted(c) ==
    /\ copy = c
    /\ open = FALSE
    /\ tile = NoTile
    /\ name = ""
    /\ tileType = "chart"
    /\ chartType = "bar"
    /\ connectionId = ""
    /\ connections = <<>>
    /\ textRows = InitialTextRows
    /\ isQueryMode = FALSE
    /\ customQuery = ""
    /\ databaseFields = <<>>
    /\ loading = FALSE
    /\ saving = FALSE
    /\ error = ""
    /\ schemaFetches = <<>>
    /\ connFetch = FALSE
    /\ saveCall = NoSave
    /\ persisted = NoTile
    /\ lastCall = NoCall
    /\ sqlQuery = NotGenerated

InitSql ==
    /\ \E c \in Copies : Mounted(c)
    /\ dimensions \in SeqsUpTo(SqlDimensionItems, MaxSel)
    /\ measures \in SeqsUpTo(SqlMeasureItems, MaxSel)
    /\ fieldTableMap \in SqlMaps

\* the preview pane renders {generateSqlQuery()}
RenderSqlPreview ==
    /\ sqlQuery = NotGenerated
    /\ sqlQuery' = generateSqlQuery
    /\ lastCall' = [op |-> "generateSqlQuery"]
    /\ UNCHANGED <<copy, open, tile, name, tileType, chartType, connectionId,
                   connections, textRows, isQueryMode, customQuery, databaseFields,
                   dimensions, measures, fieldTableMap, loading, saving, error,
                   schemaFetches, connFetch, saveCall, persisted>>

NextSql == RenderSqlPreview

SpecSql == InitSql /\ [][NextSql]_vars

(***************************************************************************)
(* SpecNumeric: isNumericField applied to one field of every column type   *)
(* of a bounded set, the field whose column carries no type included.      *)
(***************************************************************************)
ColumnTypes ==
    {"", "VARCHAR", "BIGINT", "REAL", "int", "Integer", "NUMBER", "float",
     "DOUBLE", "Decimal", "numeric", "smallint", "text", "date", "boolean",
     "INTERVAL", "real", "Float8", "uuid", "int4"}

\* type: column.type || column.data_type, undefined when the column has neither
NumericInputs ==
    {[name |-> "x", type |-> t, table |-> "orders"] : t \in ColumnTypes}
      \cup {[name |-> "x", table |-> "orders"]}

\* the editor open on a new tile, connection c1 selected and its schema,
\* the columns fields, loaded
Loaded(c, fields) ==
    /\ copy = c
    /\ open = TRUE
    /\ tile = NoTile
    /\ name = ""
    /\ tileType = "chart"
    /\ chartType = "bar"
    /\ connectionId = "c1"
    /\ connections = <<"c1", "c2", "c3">>
    /\ textRows = InitialTextRows
    /\ isQueryMode = FALSE
    /\ customQuery = ""
    /\ databaseFields = fields
    /\ dimensions = <<>>
    /\ measures = <<>>
    /\ fieldTableMap = IF c = "A"
                       THEN [n \in {fields[i].name : i \in DOMAIN fields} |->
                               LET last == CHOOSE i \in DOMAIN fields :
                                             /\ fields[i].name = n
                                             /\ \A j \in DOMAIN fields :
                                                   fields[j].name = n => j <= i
                               IN  fields[last].table]
                       ELSE <<>>
    /\ loading = FALSE
    /\ saving = FALSE
    /\ error = ""
    /\ schemaFetches = <<>>
    /\ connFetch = FALSE
    /\ saveCall = NoSave
    /\ persisted = NoTile
    /\ lastCall = NoCall
    /\ sqlQuery = NotGenerated

InitNumeric == \E c \in Copies, f \in NumericInputs : Loaded(c, <<f>>)

\* the measure chips are rendered: databaseFields.filter(isNumericField)
RenderMeasureChips ==
    /\ lastCall = NoCall
    /\ Len(databaseFields) = 1
    /\ lastCall' =
          [op |-> "isNumericField",
           result |-> IF isNumericFieldThrows(copy, databaseFields[1])
                      THEN "TypeError"
                      ELSE IF isNumericField(copy, databaseFields[1])
                           THEN "true" ELSE "false"]
    /\ UNCHANGED <<copy, open, tile, name, tileType, chartType, connectionId,
                   connections, textRows, isQueryMode, customQuery, databaseFields,
                   dimensions, measures, fieldTableMap, loading, saving, error,
                   schemaFetches, connFetch, saveCall, persisted, sqlQuery>>

NextNumeric == RenderMeasureChips

SpecNumeric == InitNumeric /\ [][NextNumeric]_vars

(***************************************************************************)
(* The editor proper.  Groups of variables, for the UNCHANGED clauses.     *)
(***************************************************************************)
dialogVars == <<open, tile>>
formVars == <<name, tileType, chartType, textRows, isQueryMode, customQuery>>
selectionVars == <<dimensions, measures, fieldTableMap>>
poolVars == <<connectionId, connections, databaseFields, schemaFetches, connFetch>>
statusVars == <<loading, saving, error>>
backendVars == <<saveCall, persisted>>

\* Map.prototype.set
MapSet(map, key, value) ==
    [k \in DOMAIN map \cup {key} |-> IF k = key THEN value ELSE map[k]]

EmptyMap == <<>>

\* Array.prototype.splice(index, 1) on a copy; index is zero-based
spliceOne(xs, index) ==
    LET start == IF index < 0
                 THEN (IF Len(xs) + index < 0 THEN 0 ELSE Len(xs) + index)
                 ELSE (IF index > Len(xs) THEN Len(xs) ELSE index)
    IN  SubSeq(xs, 1, start) \o SubSeq(xs, start + 2, Len(xs))

\* fieldTableMapTemp of loadConnectionSchema: keyed by column name, a later
\* table overwriting an earlier one
RECURSIVE schemaFieldTableMap(_)
schemaFieldTableMap(fields) ==
    IF fields = <<>> THEN EmptyMap
    ELSE LET f == fields[Len(fields)]
         IN  MapSet(schemaFieldTableMap(SubSeq(fields, 1, Len(fields) - 1)),
                    f.name, f.table)

SchemaError == "Failed to load database schema"
SchemaErrorA == "Failed to load database schema: Network Error"
SchemaErrorPayloadA == "Failed to load database schema: connection refused"
ConnectionsError == "Failed to load database connections"
ConnectionsErrorB == "Failed to load connections"

(***************************************************************************)
(* loadConnectionSchema up to its first await, and the effect on           *)
(* connectionId that calls it.                                             *)
(***************************************************************************)
loadConnectionSchemaStart(c) ==
    /\ loading' = TRUE
    /\ error' = ""
    /\ databaseFields' = IF copy = "A" THEN <<>> ELSE databaseFields
    /\ schemaFetches' = Append(schemaFetches, [conn |-> c])

\* useEffect(..., [connectionId]) after connectionId became c; leaves
\* fieldTableMap', loading', error', databaseFields', schemaFetches' defined
connectionIdEffect(c, map) ==
    IF c # ""
    THEN loadConnectionSchemaStart(c) /\ fieldTableMap' = map
    ELSE /\ UNCHANGED <<loading, error, schemaFetches>>
         /\ IF copy = "A"
            THEN databaseFields' = <<>> /\ fieldTableMap' = EmptyMap
            ELSE databaseFields' = databaseFields /\ fieldTableMap' = map

\* the run of loadConnectionSchema still waits for the schema answer itself
AtTopLevel(fetch) == ~Has(fetch, "at")

\* a schema answer that is applied only while its connection is still the
\* selected one
SchemaResolveIfCurrent(i) ==
    /\ i \in DOMAIN schemaFetches
    /\ AtTopLevel(schemaFetches[i])
    /\ schemaFetches[i].conn \in Connections
    /\ LET fields == SchemaOf(schemaFetches[i].conn)
           current == schemaFetches[i].conn = connectionId
       IN  /\ databaseFields' = IF current THEN fields ELSE databaseFields
           /\ fieldTableMap' = IF copy = "A" /\ current
                               THEN schemaFieldTableMap(fields)
                               ELSE fieldTableMap
    /\ loading' = FALSE
    /\ schemaFetches' = spliceOne(schemaFetches, i - 1)
    /\ lastCall' = [op |-> "schemaResolve"]
    /\ UNCHANGED <<copy, dialogVars, formVars, dimensions, measures,
                   connectionId, connections, connFetch, saving, error,
                   backendVars, sqlQuery>>

\* the schema answer of request i arrives
SchemaResolve(i) ==
    /\ i \in DOMAIN schemaFetches
    /\ AtTopLevel(schemaFetches[i])
    /\ schemaFetches[i].conn \in Connections
    /\ LET fields == SchemaOf(schemaFetches[i].conn)
       IN  /\ databaseFields' = fields
           /\ fieldTableMap' = IF copy = "A" THEN schemaFieldTableMap(fields)
                               ELSE fieldTableMap
    /\ loading' = FALSE
    /\ schemaFetches' = spliceOne(schemaFetches, i - 1)
    /\ lastCall' = [op |-> "schemaResolve"]
    /\ UNCHANGED <<copy, dialogVars, formVars, dimensions, measures,
                   connectionId, connections, connFetch, saving, error,
                   backendVars, sqlQuery>>

\* the schema request i fails
SchemaReject(i) ==
    /\ i \in DOMAIN schemaFetches
    /\ AtTopLevel(schemaFetches[i])
    /\ error' = IF copy = "A" THEN SchemaErrorA ELSE SchemaError
    /\ databaseFields' = IF copy = "A" THEN <<>> ELSE databaseFields
    /\ loading' = FALSE
    /\ schemaFetches' = spliceOne(schemaFetches, i - 1)
    /\ lastCall' = [op |-> "schemaReject"]
    /\ UNCHANGED <<copy, dialogVars, formVars, selectionVars, connectionId,
                   connections, connFetch, saving, backendVars, sqlQuery>>

\* the schema request i is answered with the payload {error: ...}: copy A
\* throws on response.data.error; copies B and C read the payload as a
\* schema object without tables
SchemaErrorPayload(i) ==
    /\ i \in DOMAIN schemaFetches
    /\ AtTopLevel(schemaFetches[i])
    /\ error' = IF copy = "A" THEN SchemaErrorPayloadA ELSE error
    /\ databaseFields' = <<>>
    /\ loading' = FALSE
    /\ schemaFetches' = spliceOne(schemaFetches, i - 1)
    /\ lastCall' = [op |-> "schemaErrorPayload"]
    /\ UNCHANGED <<copy, dialogVars, formVars, selectionVars, connectionId,
                   connections, connFetch, saving, backendVars, sqlQuery>>

(***************************************************************************)
(* The two-level schema path of copy A: the answer names schemas and the   *)
(* tables of each, and loadConnectionSchema asks for the columns of one    *)
(* table after the other.  A run in that loop is the record                *)
(* [conn, at, outcomes, fields]: at is the position in TableQueue of the   *)
(* table whose columns are awaited, outcomes tells how the requests before *)
(* it ended, fields is the local array fields.                             *)
(***************************************************************************)
TwoLevelConnections == {"c3"}

SchemasOf(conn) == <<"public", "sales">>

TablesOfSchema(conn, schema) ==
    IF schema = "public" THEN <<"users", "orders">> ELSE <<"deals">>

ColumnsOf(table) ==
    IF table = "public.users"
    THEN << [name |-> "id", type |-> "integer", table |-> table] >>
    ELSE IF table = "public.orders"
    THEN << [name |-> "amount", type |-> "numeric", table |-> table],
            [name |-> "region", type |-> "varchar", table |-> table] >>
    ELSE << [name |-> "amount", type |-> "numeric", table |-> table] >>

\* for (const schema of schemas) for (const tableName of schemaTables):
\* the tables in the order the loop visits them, named schema.table
RECURSIVE TableQueueFrom(_, _)
TableQueueFrom(conn, schemas) ==
    IF schemas = <<>> THEN <<>>
    ELSE LET ts == TablesOfSchema(conn, Head(schemas))
         IN  [k \in DOMAIN ts |-> Head(schemas) \o "." \o ts[k]]
               \o TableQueueFrom(conn, Tail(schemas))

TableQueue(conn) == TableQueueFrom(conn, SchemasOf(conn))

\* the schema answer {schemas, tables} of request i arrives
SchemaPayload(i) ==
    /\ i \in DOMAIN schemaFetches
    /\ AtTopLevel(schemaFetches[i])
    /\ schemaFetches[i].conn \in TwoLevelConnections
    /\ LET conn == schemaFetches[i].conn
       IN  IF copy = "A"
           THEN \* the first column request leaves
                /\ schemaFetches' =
                      [schemaFetches EXCEPT
                         ![i] = [conn |-> conn, at |-> 1, outcomes |-> <<>>,
                                 fields |-> <<>>]]
                /\ UNCHANGED <<databaseFields, fieldTableMap, loading>>
           ELSE \* Object.keys(schemaData): the array under 'schemas' is read
                \* as a list of columns, one field without name and type each
                /\ databaseFields' =
                      [k \in DOMAIN SchemasOf(conn) |-> [table |-> "schemas"]]
                /\ loading' = FALSE
                /\ schemaFetches' = spliceOne(schemaFetches, i - 1)
                /\ UNCHANGED fieldTableMap
    /\ lastCall' = [op |-> "schemaPayload"]
    /\ UNCHANGED <<copy, dialogVars, formVars, dimensions, measures,
                   connectionId, connections, connFetch, saving, error,
                   backendVars, sqlQuery>>

\* a loop that sets the state after every table instead of once at the end
columnsStepSetsEachTable(i, outcome, columns) ==
    LET run == schemaFetches[i]
        fields == run.fields \o columns
        last == run.at >= Len(TableQueue(run.conn))
    IN  /\ databaseFields' = fields
        /\ fieldTableMap' = schemaFieldTableMap(fields)
        /\ loading' = IF last THEN FALSE ELSE loading
        /\ schemaFetches' =
              IF last THEN spliceOne(schemaFetches, i - 1)
              ELSE [schemaFetches EXCEPT
                      ![i] = [conn |-> run.conn, at |-> run.at + 1,
                              outcomes |-> Append(run.outcomes, outcome),
                              fields |-> fields]]
        /\ lastCall' = IF last
                       THEN [op |-> "columns", outcome |-> outcome,
                             finished |-> TRUE, conn |-> run.conn,
                             outcomes |-> Append(run.outcomes, outcome)]
                       ELSE [op |-> "columns", outcome |-> outcome,
                             finished |-> FALSE]

\* the column request of run i has ended with outcome and added columns to
\* fields: the loop goes on to the next table or, after the last one, sets
\* the state once
columnsStep(i, outcome, columns) ==
    LET run == schemaFetches[i]
        fields == run.fields \o columns
    IN  IF run.at < Len(TableQueue(run.conn))
        THEN /\ schemaFetches' =
                   [schemaFetches EXCEPT
                      ![i] = [conn |-> run.conn, at |-> run.at + 1,
                              outcomes |-> Append(run.outcomes, outcome),
                              fields |-> fields]]
             /\ lastCall' = [op |-> "columns", outcome |-> outcome,
                             finished |-> FALSE]
             /\ UNCHANGED <<databaseFields, fieldTableMap, loading>>
        ELSE /\ databaseFields' = fields
             /\ fieldTableMap' = schemaFieldTableMap(fields)
             /\ loading' = FALSE
             /\ schemaFetches' = spliceOne(schemaFetches, i - 1)
             /\ lastCall' = [op |-> "columns", outcome |-> outcome,
                             finished |-> TRUE,
                             conn |-> run.conn,
                             outcomes |-> Append(run.outcomes, outcome)]

InColumnLoop(i) == i \in DOMAIN schemaFetches /\ ~AtTopLevel(schemaFetches[i])

\* columnsResponse.data.success && columnsResponse.data.data
ColumnsResolve(i) ==
    /\ InColumnLoop(i)
    /\ columnsStep(i, "ok",
                   ColumnsOf(TableQueue(schemaFetches[i].conn)[schemaFetches[i].at]))
    /\ UNCHANGED <<copy, dialogVars, formVars, dimensions, measures,
                   connectionId, connections, connFetch, saving, error,
                   backendVars, sqlQuery>>

\* a column request whose failure reaches the outer catch of the run
ColumnsRejectAborts(i) ==
    /\ InColumnLoop(i)
    /\ error' = SchemaErrorA
    /\ databaseFields' = <<>>
    /\ loading' = FALSE
    /\ schemaFetches' = spliceOne(schemaFetches, i - 1)
    /\ lastCall' = [op |-> "columns", outcome |-> "failed", finished |-> TRUE,
                    conn |-> schemaFetches[i].conn,
                    outcomes |-> Append(schemaFetches[i].outcomes, "failed")]
    /\ UNCHANGED <<copy, dialogVars, formVars, dimensions, measures,
                   connectionId, connections, connFetch, saving, fieldTableMap,
                   backendVars, sqlQuery>>

\* the column request fails: caught inside the loop and logged
ColumnsReject(i) ==
    /\ InColumnLoop(i)
    /\ columnsStep(i, "failed", <<>>)
    /\ UNCHANGED <<copy, dialogVars, formVars, dimensions, measures,
                   connectionId, connections, connFetch, saving, error,
                   backendVars, sqlQuery>>

\* the column request is answered without success or without data
ColumnsEmpty(i) ==
    /\ InColumnLoop(i)
    /\ columnsStep(i, "empty", <<>>)
    /\ UNCHANGED <<copy, dialogVars, formVars, dimensions, measures,
                   connectionId, connections, connFetch, saving, error,
                   backendVars, sqlQuery>>

(***************************************************************************)
(* handleConnectionChange                                                  *)
(***************************************************************************)
HandleConnectionChange(c) ==
    /\ open
    /\ c \in {""} \cup Range(connections)
    /\ c # connectionId
    /\ c # "" => Len(schemaFetches) < MaxFetches
    /\ connectionId' = c
    /\ dimensions' = <<>>
    /\ measures' = <<>>
    /\ connectionIdEffect(c, fieldTableMap)
    /\ lastCall' = [op |-> "handleConnectionChange"]
    /\ UNCHANGED <<copy, dialogVars, formVars, connections, connFetch, saving,
                   backendVars, sqlQuery>>

(***************************************************************************)
(* Selection handlers                                                      *)
(***************************************************************************)
\* a dimension is appended although its fieldId is already selected
dimensionSelectedNever(dims, fieldId) == FALSE

\* dimensions.some(d => d.fieldId === fieldId)
dimensionSelected(dims, fieldId) ==
    \E i \in DOMAIN dims : dims[i].fieldId = fieldId

HandleAddDimension(field) ==
    /\ open
    /\ field \in Range(databaseFields)
    /\ LET fieldId == field.table \o "." \o field.name
           dimension == [fieldId |-> fieldId, fieldName |-> field.name]
       IN  IF ~dimensionSelected(dimensions, fieldId)
           THEN /\ Len(dimensions) < MaxSel
                /\ dimensions' = Append(dimensions, dimension)
                /\ fieldTableMap' = MapSet(fieldTableMap, fieldId, field.table)
           ELSE UNCHANGED <<dimensions, fieldTableMap>>
    /\ lastCall' = [op |-> "handleAddDimension", field |-> field]
    /\ UNCHANGED <<copy, dialogVars, formVars, measures, poolVars, statusVars,
                   backendVars, sqlQuery>>

HandleRemoveDimension(index) ==
    /\ open
    /\ index \in Int
    /\ dimensions' = spliceOne(dimensions, index)
    /\ lastCall' = [op |-> "handleRemoveDimension", index |-> index]
    /\ UNCHANGED <<copy, dialogVars, formVars, measures, fieldTableMap,
                   poolVars, statusVars, backendVars, sqlQuery>>

\* the numeric check left to the rendering of the chips
measureRejectedNever(c, field) == FALSE

\* if (!isNumericField(field)) return;
measureRejected(c, field) == ~isNumericField(c, field)

HandleAddMeasure(field) ==
    /\ open
    /\ field \in Range(databaseFields)
    /\ IF measureRejected(copy, field)
       THEN UNCHANGED <<measures, fieldTableMap>>
       ELSE LET exists == \E i \in DOMAIN measures :
                              measures[i].fieldId = field.name
                newMeasure == [fieldId |-> field.name, fieldName |-> field.name,
                               aggregation |-> "sum",
                               alias |-> field.name \o "_sum"]
            IN  IF ~exists
                THEN /\ Len(measures) < MaxSel
                     /\ measures' = Append(measures, newMeasure)
                     \* copy C passes the undeclared name fieldId to
                     \* fieldTableMap.set: a ReferenceError, after setMeasures
                     /\ fieldTableMap' =
                          IF copy = "C" THEN fieldTableMap
                          ELSE MapSet(fieldTableMap, newMeasure.fieldId, field.table)
                ELSE UNCHANGED <<measures, fieldTableMap>>
    /\ lastCall' = [op |-> "handleAddMeasure", field |-> field]
    /\ UNCHANGED <<copy, dialogVars, formVars, dimensions, poolVars, statusVars,
                   backendVars, sqlQuery>>

HandleRemoveMeasure(index) ==
    /\ open
    /\ index \in Int
    /\ measures' = spliceOne(measures, index)
    /\ lastCall' = [op |-> "handleRemoveMeasure", index |-> index]
    /\ UNCHANGED <<copy, dialogVars, formVars, dimensions, fieldTableMap,
                   poolVars, statusVars, backendVars, sqlQuery>>

\* an aggregation change that also renames the alias after the aggregation
HandleMeasureAggregationChangeRenames(index, aggregation) ==
    /\ open
    /\ index \in 0..(Len(measures) - 1)
    /\ measures' = [measures EXCEPT
                      ![index + 1].aggregation = aggregation,
                      ![index + 1].alias =
                          measures[index + 1].fieldName \o "_" \o aggregation]
    /\ lastCall' = [op |-> "handleMeasureAggregationChange", index |-> index]
    /\ UNCHANGED <<copy, dialogVars, formVars, dimensions, fieldTableMap,
                   poolVars, statusVars, backendVars, sqlQuery>>

HandleMeasureAggregationChange(index, aggregation) ==
    /\ open
    /\ index \in 0..(Len(measures) - 1)
    /\ measures' = [measures EXCEPT ![index + 1].aggregation = aggregation]
    /\ lastCall' = [op |-> "handleMeasureAggregationChange", index |-> index]
    /\ UNCHANGED <<copy, dialogVars, formVars, dimensions, fieldTableMap,
                   poolVars, statusVars, backendVars, sqlQuery>>

(***************************************************************************)
(* Tiles as the backend returns them.  An absent property of a config is   *)
(* an absent field of the record; connectionId "" stands for undefined.    *)
(***************************************************************************)
UiKinds == {"chart", "table", "metric", "text", "query"}
UiKindsC == {"chart", "table", "metric", "text"}
BackendKinds == {"chart", "text", "kpi"}
BackendChartTypes == {"bar", "line", "pie", "donut"}

LegacyTiles ==
    { [id |-> "t0", title |-> "Sales", type |-> "chart", connectionId |-> "c1",
       config |-> [chartType |-> "pie",
                   dimensions |-> << [fieldId |-> "orders.region",
                                      fieldName |-> "region"] >>,
                   measures |-> << [fieldId |-> "amount", fieldName |-> "amount",
                                    aggregation |-> "sum",
                                    alias |-> "amount_sum"] >>]],
      [id |-> "t9", title |-> "Sales", type |-> "kpi", connectionId |-> "",
       config |-> [measure |-> [fieldId |-> "amount", fieldName |-> "amount",
                                aggregation |-> "sum", alias |-> "amount_sum"]]],
      [id |-> "t5", title |-> "Notes", type |-> "text", connectionId |-> "",
       config |-> [textRows |-> << [id |-> "1", type |-> "header",
                                    content |-> "Hello", isQuery |-> FALSE] >>]] }

\* tiles stored with the uiType tags handleSave writes
TaggedTiles ==
    { [id |-> "t2", title |-> "Sales", type |-> "chart", connectionId |-> "c1",
       config |-> [chartType |-> "bar", uiChartType |-> "table", uiType |-> "table",
                   connectionId |-> "c1",
                   dimensions |-> << [fieldId |-> "orders.region",
                                      fieldName |-> "region"] >>,
                   measures |-> << [fieldId |-> "amount", fieldName |-> "amount",
                                    aggregation |-> "sum",
                                    alias |-> "amount_sum"] >>,
                   metadata |-> [sqlQuery |-> ""]]],
      [id |-> "t3", title |-> "Notes", type |-> "text", connectionId |-> "",
       config |-> [uiType |-> "query", isQueryMode |-> FALSE,
                   textRows |-> << [id |-> "1", type |-> "header",
                                    content |-> "Hello", isQuery |-> FALSE] >>]] }

\* the tiles the dashboard can hand to the editor
EditableTiles ==
    LegacyTiles \cup TaggedTiles \cup (IF persisted = NoTile THEN {} ELSE {persisted})

(***************************************************************************)
(* useEffect(..., [tile, open]): initialize the form from the tile.        *)
(* The result holds the values the setters are called with; a setter that  *)
(* is not called keeps the current value.                                  *)
(***************************************************************************)
initTileType(c, t) ==
    IF c = "B"
    THEN IF Has(t.config, "uiType") THEN t.config.uiType
         ELSE IF t.type = "chart" THEN "chart"
         ELSE IF t.type = "text" THEN "text"
         ELSE IF t.type = "kpi" THEN "metric"
         ELSE "chart"
    ELSE t.type

initChartType(c, t) ==
    IF c = "B"
    THEN IF Has(t.config, "uiChartType") THEN t.config.uiChartType
         ELSE IF Has(t.config, "chartType") THEN t.config.chartType
         ELSE chartType
    ELSE IF Has(t.config, "chartType") THEN t.config.chartType ELSE "bar"

initDimensions(c, t) ==
    IF Has(t.config, "dimensions") THEN t.config.dimensions
    ELSE IF c = "B" THEN dimensions ELSE <<>>

initMeasures(c, t) ==
    IF Has(t.config, "measures") THEN t.config.measures
    ELSE IF c = "B"
         THEN IF Has(t.config, "measure") THEN <<t.config.measure>> ELSE measures
         ELSE <<>>

initConnectionId(c, t) ==
    IF t.connectionId # "" THEN t.connectionId
    ELSE IF c = "B" /\ Has(t.config, "connectionId") THEN t.config.connectionId
    ELSE connectionId

initTextRows(c, t) ==
    IF Has(t.config, "textRows") /\ (c = "B" \/ t.type = "text")
    THEN t.config.textRows ELSE textRows

initIsQueryMode(c, t) ==
    IF c = "B" /\ Has(t.config, "isQueryMode") /\ t.config.isQueryMode
    THEN TRUE ELSE isQueryMode

initCustomQuery(c, t) ==
    IF /\ c = "B"
       /\ Has(t.config, "isQueryMode") /\ t.config.isQueryMode
       /\ Has(t.config, "customQuery") /\ t.config.customQuery # ""
    THEN t.config.customQuery ELSE customQuery

(***************************************************************************)
(* The dashboard opens the dialog, for a new tile (NoTile) or for a        *)
(* persisted one.  Both effects of the commit run: loadConnections up to   *)
(* its await, and the initialization of the form; a changed connectionId   *)
(* then starts loadConnectionSchema.                                       *)
(***************************************************************************)
OpenDialog(t) ==
    /\ ~open
    /\ saveCall = NoSave
    /\ ~connFetch
    /\ Len(schemaFetches) < MaxFetches
    /\ t \in {NoTile} \cup EditableTiles
    /\ open' = TRUE
    /\ tile' = t
    /\ connFetch' = TRUE
    /\ IF t = NoTile
       THEN /\ loading' = TRUE
            /\ UNCHANGED <<formVars, selectionVars, connectionId,
                           databaseFields, schemaFetches, error>>
       ELSE /\ name' = t.title
            /\ tileType' = initTileType(copy, t)
            /\ chartType' = initChartType(copy, t)
            /\ dimensions' = initDimensions(copy, t)
            /\ measures' = initMeasures(copy, t)
            /\ textRows' = initTextRows(copy, t)
            /\ isQueryMode' = initIsQueryMode(copy, t)
            /\ customQuery' = initCustomQuery(copy, t)
            /\ connectionId' = initConnectionId(copy, t)
            /\ IF initConnectionId(copy, t) # connectionId
               THEN connectionIdEffect(initConnectionId(copy, t), fieldTableMap)
               ELSE /\ loading' = TRUE
                    /\ UNCHANGED <<fieldTableMap, databaseFields,
                                   schemaFetches, error>>
    /\ lastCall' = [op |-> "openDialog"]
    /\ UNCHANGED <<copy, connections, saving, backendVars, sqlQuery>>

\* the Cancel button: onClose
Cancel ==
    /\ open
    /\ open' = FALSE
    /\ lastCall' = [op |-> "cancel"]
    /\ UNCHANGED <<copy, tile, formVars, selectionVars, poolVars, statusVars,
                   backendVars, sqlQuery>>

ActiveConnections == <<"c1", "c2", "c3">>

\* getAllConnections answers
ConnectionsResolve ==
    /\ connFetch
    /\ connFetch' = FALSE
    /\ connections' = ActiveConnections
    /\ IF copy = "B" /\ ActiveConnections[1] # connectionId
       THEN /\ Len(schemaFetches) < MaxFetches
            /\ connectionId' = ActiveConnections[1]
            /\ connectionIdEffect(ActiveConnections[1], fieldTableMap)
       ELSE /\ loading' = FALSE
            /\ UNCHANGED <<connectionId, fieldTableMap, databaseFields,
                           schemaFetches, error>>
    /\ lastCall' = [op |-> "connectionsResolve"]
    /\ UNCHANGED <<copy, dialogVars, formVars, dimensions, measures, saving,
                   backendVars, sqlQuery>>

\* getAllConnections fails
ConnectionsReject ==
    /\ connFetch
    /\ connFetch' = FALSE
    /\ error' = IF copy = "B" THEN ConnectionsErrorB ELSE ConnectionsError
    /\ loading' = FALSE
    /\ lastCall' = [op |-> "connectionsReject"]
    /\ UNCHANGED <<copy, dialogVars, formVars, selectionVars, connectionId,
                   connections, databaseFields, schemaFetches, saving,
                   backendVars, sqlQuery>>

(***************************************************************************)
(* Form fields                                                             *)
(***************************************************************************)
Titles == {"", "Sales"}

SetName(n) ==
    /\ open
    /\ n \in Titles
    /\ name' = n
    /\ lastCall' = [op |-> "setName"]
    /\ UNCHANGED <<copy, dialogVars, tileType, chartType, textRows, isQueryMode,
                   customQuery, selectionVars, poolVars, statusVars,
                   backendVars, sqlQuery>>

\* the Tile Type drop-down
SetTileType(kind) ==
    /\ open
    /\ kind \in (IF copy = "C" THEN UiKindsC ELSE UiKinds)
    /\ tileType' = kind
    /\ lastCall' = [op |-> "setTileType"]
    /\ UNCHANGED <<copy, dialogVars, name, chartType, textRows, isQueryMode,
                   customQuery, selectionVars, poolVars, statusVars,
                   backendVars, sqlQuery>>

HandleChartTypeChange(value) ==
    /\ open
    /\ tileType = "chart"
    /\ value \in BackendChartTypes
    /\ chartType' = value
    /\ lastCall' = [op |-> "handleChartTypeChange"]
    /\ UNCHANGED <<copy, dialogVars, name, tileType, textRows, isQueryMode,
                   customQuery, selectionVars, poolVars, statusVars,
                   backendVars, sqlQuery>>

RowContents == {"", "Hello"}

handleTextRowContentChange(rows, id, content) ==
    [i \in DOMAIN rows |->
        IF rows[i].id = id THEN [rows[i] EXCEPT !.content = content] ELSE rows[i]]

HandleTextRowContentChange(id, content) ==
    /\ open
    /\ \E i \in DOMAIN textRows : textRows[i].id = id
    /\ content \in RowContents
    /\ textRows' = handleTextRowContentChange(textRows, id, content)
    /\ lastCall' = [op |-> "handleTextRowContentChange"]
    /\ UNCHANGED <<copy, dialogVars, name, tileType, chartType, isQueryMode,
                   customQuery, selectionVars, poolVars, statusVars,
                   backendVars, sqlQuery>>

\* the switch "SQL Query / Direct Text" of a text row; the switch is
\* disabled while no connection is selected
HandleToggleRowQueryMode(id) ==
    /\ open
    /\ connectionId # ""
    /\ \E i \in DOMAIN textRows : textRows[i].id = id
    /\ textRows' = [i \in DOMAIN textRows |->
                      IF textRows[i].id = id
                      THEN [textRows[i] EXCEPT !.isQuery = ~textRows[i].isQuery]
                      ELSE textRows[i]]
    /\ lastCall' = [op |-> "handleToggleRowQueryMode"]
    /\ UNCHANGED <<copy, dialogVars, name, tileType, chartType, isQueryMode,
                   customQuery, selectionVars, poolVars, statusVars,
                   backendVars, sqlQuery>>

\* the switch "Database Query Mode" of the Data tab, shown for kind query
SetIsQueryMode(checked) ==
    /\ open
    /\ copy = "A"
    /\ tileType = "query"
    /\ isQueryMode' = checked
    /\ lastCall' = [op |-> "setIsQueryMode"]
    /\ UNCHANGED <<copy, dialogVars, name, tileType, chartType, textRows,
                   customQuery, selectionVars, poolVars, statusVars,
                   backendVars, sqlQuery>>

Queries == {"", " ", "SELECT 1"}

\* the text field "SQL Query", shown in query mode
SetCustomQuery(value) ==
    /\ open
    /\ copy = "A"
    /\ tileType = "query"
    /\ isQueryMode
    /\ value \in Queries
    /\ customQuery' = value
    /\ lastCall' = [op |-> "setCustomQuery"]
    /\ UNCHANGED <<copy, dialogVars, name, tileType, chartType, textRows,
                   isQueryMode, selectionVars, poolVars, statusVars,
                   backendVars, sqlQuery>>

(***************************************************************************)
(* Validation gate                                                         *)
(***************************************************************************)
InvalidConfiguration == "Invalid tile configuration"
TitleRequired == "Title is required"
ChartMeasureRequired == "At least one measure is required for a chart"
MetricMeasureRequired == "At least one measure is required for a metric tile"
ConnectionRequired == "A connection is required for this tile type"
\* the catch block leaving no message
SaveFailedSilently == ""

SaveFailed == "Failed to save tile: Network Error"

\* textRows.length > 0 && textRows.some(row => row.content.trim())
someRowHasContent ==
    Len(textRows) > 0 /\ \E i \in DOMAIN textRows : trim(textRows[i].content) # ""

\* isValid of copy A
isValidA ==
    IF trim(name) = "" THEN FALSE
    ELSE IF tileType \in {"chart", "table"}
         THEN connectionId # "" /\ Len(dimensions) > 0 /\ Len(measures) > 0
    ELSE IF tileType = "metric"
         THEN connectionId # "" /\ Len(measures) > 0
    ELSE IF tileType = "text" THEN someRowHasContent
    ELSE IF tileType = "query"
         THEN IF isQueryMode
              THEN connectionId # "" /\ Len(trim(customQuery)) > 0
              ELSE someRowHasContent
    ELSE FALSE

\* isValid of copy B: the message it sets, "" when it returns true
isValidBError ==
    IF trim(name) = "" THEN TitleRequired
    ELSE IF tileType = "chart" /\ Len(measures) = 0 THEN ChartMeasureRequired
    ELSE IF tileType = "metric" /\ Len(measures) = 0 THEN MetricMeasureRequired
    ELSE IF tileType \in {"chart", "table", "metric"} /\ connectionId = ""
         THEN ConnectionRequired
    ELSE ""

\* what the gate at the head of handleSave answers: "" to go on, else the
\* message it leaves in error; copy C has no gate
gateError(c) ==
    IF c = "A" THEN (IF isValidA THEN "" ELSE InvalidConfiguration)
    ELSE IF c = "B" THEN isValidBError
    ELSE ""

(***************************************************************************)
(* handleSave: the config, the backend type and the DTO                    *)
(***************************************************************************)
\* if (connectionId) config.connectionId = connectionId
withConnectionId(config) ==
    IF connectionId # "" THEN MapSet(config, "connectionId", connectionId)
    ELSE config

saveConfigA ==
    IF tileType = "chart"
    THEN [chartType |-> chartType, dimensions |-> dimensions,
          measures |-> measures, uiType |-> "chart",
          metadata |-> [sqlQuery |-> generateSqlQuery]]
    ELSE IF tileType = "table"
    THEN [chartType |-> "bar", uiChartType |-> "table",
          dimensions |-> dimensions, measures |-> measures, uiType |-> "table",
          metadata |-> [sqlQuery |-> generateSqlQuery]]
    ELSE IF tileType = "metric"
    THEN [measure |-> measures[1], uiType |-> "metric",
          metadata |-> [sqlQuery |-> generateSqlQuery]]
    ELSE IF tileType = "text"
    THEN [textRows |-> textRows, uiType |-> "text", isQueryMode |-> FALSE]
    ELSE IF tileType = "query"
    THEN IF isQueryMode
         THEN [customQuery |-> customQuery, isQueryMode |-> TRUE,
               uiType |-> "query", metadata |-> [sqlQuery |-> customQuery]]
         ELSE [textRows |-> textRows, uiType |-> "query", isQueryMode |-> FALSE]
    ELSE <<>>

saveConfigB ==
    IF tileType = "chart"
    THEN [chartType |-> chartType, uiChartType |-> chartType,
          dimensions |-> dimensions, measures |-> measures, uiType |-> "chart",
          metadata |-> [sqlQuery |-> generateSqlQuery]]
    ELSE IF tileType = "table"
    THEN [chartType |-> "bar", uiChartType |-> "table",
          dimensions |-> dimensions, measures |-> measures, uiType |-> "table",
          metadata |-> [sqlQuery |-> generateSqlQuery]]
    ELSE IF tileType = "metric"
    THEN [measure |-> measures[1], measures |-> measures, uiType |-> "metric",
          metadata |-> [sqlQuery |-> generateSqlQuery]]
    ELSE IF tileType = "text"
    THEN [textRows |-> textRows, uiType |-> "text", isQueryMode |-> FALSE]
    ELSE IF tileType = "query"
    THEN IF isQueryMode
         THEN [textRows |-> <<>>, uiType |-> "query", isQueryMode |-> TRUE,
               customQuery |-> customQuery]
         ELSE [textRows |-> textRows, uiType |-> "query", isQueryMode |-> FALSE]
    ELSE <<>>

saveConfigC ==
    IF tileType = "chart"
    THEN [chartType |-> chartType, dimensions |-> dimensions,
          measures |-> measures, metadata |-> [sqlQuery |-> generateSqlQuery]]
    ELSE IF tileType = "table"
    THEN [dimensions |-> dimensions, measures |-> measures,
          metadata |-> [sqlQuery |-> generateSqlQuery]]
    ELSE IF tileType = "metric"
    THEN [measure |-> measures[1], metadata |-> [sqlQuery |-> generateSqlQuery]]
    ELSE IF tileType = "text" THEN [textRows |-> textRows]
    ELSE <<>>

saveConfig(c) ==
    IF c = "A" THEN withConnectionId(saveConfigA)
    ELSE IF c = "B" THEN withConnectionId(saveConfigB)
    ELSE saveConfigC

\* the switch that maps the UI kind to the backend type; copy C sends
\* tileType itself
backendType(c, kind) ==
    IF c = "C" THEN kind
    ELSE IF kind \in {"chart", "table"} THEN "chart"
    ELSE IF kind = "metric" THEN "kpi"
    ELSE IF kind \in {"text", "query"} THEN "text"
    ELSE "chart"

tileData(c) ==
    [title |-> name, type |-> backendType(c, tileType),
     connectionId |-> connectionId, config |-> saveConfig(c)]

\* the switch on tileType calls generateSqlQuery for the data-bound kinds
savedSqlQuery ==
    IF tileType \in {"chart", "table", "metric"} THEN generateSqlQuery
    ELSE sqlQuery

(***************************************************************************)
(* handleSave up to the await of createTile/updateTile                     *)
(***************************************************************************)
HandleSave ==
    /\ open
    /\ saveCall = NoSave
    /\ IF gateError(copy) # ""
       THEN \* the gate refuses
            /\ error' = gateError(copy)
            /\ saving' = FALSE
            /\ lastCall' = [op |-> "handleSave", outcome |-> "refused"]
            /\ UNCHANGED <<saveCall, sqlQuery>>
       ELSE IF tileType = "metric" /\ Len(measures) = 0
       THEN \* case 'metric' returns from inside the try block
            /\ error' = MetricMeasureRequired
            /\ saving' = FALSE
            /\ lastCall' = [op |-> "handleSave", outcome |-> "refused"]
            /\ UNCHANGED <<saveCall, sqlQuery>>
       ELSE /\ error' = ""
            /\ saving' = TRUE
            /\ sqlQuery' = savedSqlQuery
            /\ saveCall' = [method |-> IF tile # NoTile THEN "updateTile"
                                       ELSE "createTile",
                            dto |-> tileData(copy)]
            /\ lastCall' = [op |-> "handleSave", outcome |-> "sent"]
    /\ UNCHANGED <<copy, dialogVars, formVars, selectionVars, poolVars, loading,
                   persisted>>

\* createTile/updateTile answers: onSave(), then onClose() in copies A and B
SaveResolve ==
    /\ saveCall # NoSave
    /\ persisted' = [id |-> IF saveCall.method = "updateTile" THEN tile.id ELSE "t1",
                     title |-> saveCall.dto.title,
                     type |-> saveCall.dto.type,
                     connectionId |-> saveCall.dto.connectionId,
                     config |-> saveCall.dto.config]
    /\ saveCall' = NoSave
    /\ open' = IF copy = "C" THEN open ELSE FALSE
    /\ saving' = FALSE
    /\ lastCall' = [op |-> "saveResolve"]
    /\ UNCHANGED <<copy, tile, formVars, selectionVars, poolVars, loading, error,
                   sqlQuery>>

\* createTile/updateTile fails
SaveReject ==
    /\ saveCall # NoSave
    /\ saveCall' = NoSave
    /\ error' = SaveFailed
    /\ saving' = FALSE
    /\ lastCall' = [op |-> "saveReject"]
    /\ UNCHANGED <<copy, dialogVars, formVars, selectionVars, poolVars, loading,
                   persisted, sqlQuery>>

(***************************************************************************)
(* Spec: one editor, mounted closed, driven by the dashboard, the user and *)
(* the network.                                                            *)
(***************************************************************************)
Init ==
    /\ \E c \in Copies : Mounted(c)
    /\ dimensions = <<>>
    /\ measures = <<>>
    /\ fieldTableMap = EmptyMap

Next ==
    \/ OpenDialog(NoTile)
    \/ ConnectionsResolve
    \/ /\ schemaFetches = <<>>  \* the user waits for the schema before switching
       /\ \E c \in {""} \cup Connections : HandleConnectionChange(c)
    \/ \E i \in 1..MaxFetches : SchemaResolve(i)
    \/ \E f \in AllFields : HandleAddDimension(f)
    \/ \E i \in 0..(MaxSel - 1) : HandleRemoveDimension(i)
    \/ \E f \in AllFields : HandleAddMeasure(f)
    \/ \E i \in 0..(MaxSel - 1) : HandleRemoveMeasure(i)

Spec == Init /\ [][Next]_vars

(***************************************************************************)
(* SpecSave: a tile is composed, saved for the first time and opened again *)
(* for editing.  The user picks connection c1, one dimension and one       *)
(* measure at most, a title, a kind and the content of the first text row. *)
(***************************************************************************)
SaveDimensionFields == {SchemaOf("c1")[1]}
SaveMeasureFields == {SchemaOf("c1")[2]}

NextSave ==
    \/ OpenDialog(NoTile)
    \/ \E t \in EditableTiles \ (LegacyTiles \cup TaggedTiles) : OpenDialog(t)
    \/ Cancel
    \/ ConnectionsResolve
    \/ \E i \in 1..MaxFetches : SchemaResolve(i)
    \/ /\ persisted = NoTile
       /\ \/ HandleConnectionChange("c1")
          \/ \E f \in SaveDimensionFields : HandleAddDimension(f)
          \/ \E f \in SaveMeasureFields : HandleAddMeasure(f)
          \/ \E n \in Titles : SetName(n)
          \/ \E k \in UiKinds : SetTileType(k)
          \/ \E c \in RowContents : HandleTextRowContentChange("1", c)
          \/ HandleSave
    \/ SaveResolve
    \/ SaveReject

SpecSave == Init /\ [][NextSave]_vars

(***************************************************************************)
(* SpecFetch: the user switches connections without waiting for the schema *)
(* answers, which arrive in any order or fail.                             *)
(***************************************************************************)
NextFetch ==
    \/ OpenDialog(NoTile)
    \/ ConnectionsResolve
    \/ ConnectionsReject
    \/ \E c \in {""} \cup Connections : HandleConnectionChange(c)
    \/ \E i \in 1..MaxFetches : SchemaResolve(i)
    \/ \E i \in 1..MaxFetches : SchemaReject(i)
    \/ \E i \in 1..MaxFetches : SchemaErrorPayload(i)

SpecFetch == Init /\ [][NextFetch]_vars

(***************************************************************************)
(* SpecTables: the user selects the connection whose schema answer has two *)
(* levels, or the flat c1, and the column requests succeed or fail.        *)
(***************************************************************************)
NextTables ==
    \/ OpenDialog(NoTile)
    \/ ConnectionsResolve
    \/ \E c \in {"", "c1", "c3"} : HandleConnectionChange(c)
    \/ \E i \in 1..MaxFetches : SchemaResolve(i)
    \/ \E i \in 1..MaxFetches : SchemaPayload(i)
    \/ \E i \in 1..MaxFetches : ColumnsResolve(i)
    \/ \E i \in 1..MaxFetches : ColumnsReject(i)
    \/ \E i \in 1..MaxFetches : ColumnsEmpty(i)

SpecTables == Init /\ [][NextTables]_vars

(***************************************************************************)
(* SpecSelect: the editor is open on a new tile with the schema of c1 on   *)
(* display; the user adds and removes dimensions and measures and changes  *)
(* aggregations.  The remove handlers are also called with indices outside *)
(* the lists.                                                              *)
(***************************************************************************)
InitSelect == \E c \in Copies : Loaded(c, SchemaOf("c1"))

RemoveIndices == (0 - MaxSel - 1)..(MaxSel + 1)

NextSelect ==
    \/ \E f \in Range(SchemaOf("c1")) : HandleAddDimension(f)
    \/ \E i \in RemoveIndices : HandleRemoveDimension(i)
    \/ \E f \in Range(SchemaOf("c1")) : HandleAddMeasure(f)
    \/ \E i \in RemoveIndices : HandleRemoveMeasure(i)
    \/ \E i \in 0..(MaxSel - 1), a \in Aggregations :
          HandleMeasureAggregationChange(i, a)

SpecSelect == InitSelect /\ [][NextSelect]_vars

(***************************************************************************)
(* SpecGate: the user composes text and query tiles and presses Save.      *)
(***************************************************************************)
GateKinds == {"chart", "text", "query"}

NextGate ==
    \/ OpenDialog(NoTile)
    \/ ConnectionsResolve
    \/ \E i \in 1..MaxFetches : SchemaResolve(i)
    \/ /\ schemaFetches = <<>>
       /\ \E c \in {"", "c1"} : HandleConnectionChange(c)
    \/ \E n \in Titles : SetName(n)
    \/ \E k \in GateKinds : SetTileType(k)
    \/ \E c \in RowContents : HandleTextRowContentChange("1", c)
    \/ HandleToggleRowQueryMode("1")
    \/ \E b \in BOOLEAN : SetIsQueryMode(b)
    \/ \E q \in Queries : SetCustomQuery(q)
    \/ HandleSave
    \/ SaveResolve
    \/ SaveReject

SpecGate == Init /\ [][NextGate]_vars

(***************************************************************************)
(* SpecEdit: the dashboard opens stored tiles for editing, with and        *)
(* without the uiType tags, and closes the dialog again.                   *)
(***************************************************************************)
NextEdit ==
    \/ \E t \in LegacyTiles \cup TaggedTiles : OpenDialog(t)
    \/ Cancel
    \/ ConnectionsResolve
    \/ \E i \in 1..MaxFetches : SchemaResolve(i)

SpecEdit == Init /\ [][NextEdit]_vars

(***************************************************************************)
(* SpecChart: the dashboard opens a stored chart or table tile, the user   *)
(* changes the tile type and the chart type and saves.                     *)
(***************************************************************************)
ChartTiles == {t \in LegacyTiles \cup TaggedTiles : t.type = "chart"}

NextChart ==
    \/ \E t \in ChartTiles : OpenDialog(t)
    \/ Cancel
    \/ ConnectionsResolve
    \/ \E i \in 1..MaxFetches : SchemaResolve(i)
    \/ \E k \in {"chart", "table"} : SetTileType(k)
    \/ \E v \in BackendChartTypes : HandleChartTypeChange(v)
    \/ HandleSave
    \/ SaveResolve
    \/ SaveReject

SpecChart == Init /\ [][NextChart]_vars

(***************************************************************************)
(* Reading a generated statement back.                                     *)
(***************************************************************************)
\* position of the first occurrence of sub in s, 0 when there is none
indexOf(s, sub) ==
    IF includes(s, sub)
    THEN CHOOSE i \in 1..(Len(s) - Len(sub) + 1) :
            /\ SubSeq(s, i, i + Len(sub) - 1) = sub
            /\ \A j \in 1..(i - 1) : SubSeq(s, j, j + Len(sub) - 1) # sub
    ELSE 0

\* the text between SELECT and FROM
SelectListIn(s) == trim(SubSeq(s, Len("SELECT ") + 1, indexOf(s, "FROM ") - 1))

\* the text after FROM
AfterFrom(s) == SubSeq(s, indexOf(s, "FROM ") + Len("FROM "), Len(s))

\* the first word after FROM
FromTableIn(s) ==
    LET rest == AfterFrom(s)
    IN  IF includes(rest, " ") THEN SubSeq(rest, 1, indexOf(rest, " ") - 1) ELSE rest

\* the last position at or before i where sub starts in s, 0 when there is none
RECURSIVE lastIndexOfFrom(_, _, _)
lastIndexOfFrom(s, sub, i) ==
    IF i < 1 THEN 0
    ELSE IF SubSeq(s, i, i + Len(sub) - 1) = sub THEN i
    ELSE lastIndexOfFrom(s, sub, i - 1)

lastIndexOf(s, sub) == lastIndexOfFrom(s, sub, Len(s) - Len(sub) + 1)

\* the text after GROUP BY, which is the last clause; "" when it is missing
GroupByIn(s) ==
    LET i == lastIndexOf(s, "GROUP BY ")
    IN  IF i = 0 THEN "" ELSE trim(SubSeq(s, i + Len("GROUP BY "), Len(s)))

Generated == sqlQuery # NotGenerated

(***************************************************************************)
(* C1: generateSqlQuery returns the empty string whenever the dimension    *)
(* list is empty or the measure list is empty, in every copy, whatever     *)
(* fieldTableMap holds.                                                    *)
(***************************************************************************)
C1_EmptySelectionGivesEmptyQuery ==
    (Generated /\ (dimensions = <<>> \/ measures = <<>>)) => sqlQuery = ""

C1_Witness ==
    /\ Generated
    /\ dimensions # <<>>
    /\ measures = <<>>
    /\ "orders.region" \in DOMAIN fieldTableMap
    /\ sqlQuery = ""

(***************************************************************************)
(* C2: for non-empty dimension and measure lists the SELECT list is one    *)
(* term table.fieldName per dimension followed by one term                 *)
(* aggregation(table.fieldName) as alias per measure, each group in the    *)
(* order of its list, table being the fieldTableMap entry of the item's    *)
(* fieldId.                                                                *)
(***************************************************************************)
\* every selected item has its entry in the map and every measure its alias
C2_EntriesPresent ==
    /\ \A i \in DOMAIN dimensions : dimensions[i].fieldId \in DOMAIN fieldTableMap
    /\ \A i \in DOMAIN measures :
          /\ measures[i].fieldId \in DOMAIN fieldTableMap
          /\ Has(measures[i], "alias")

C2_DimensionTerm(d) == fieldTableMap[d.fieldId] \o "." \o d.fieldName

C2_MeasureTerm(m) ==
    m.aggregation \o "(" \o fieldTableMap[m.fieldId] \o "." \o m.fieldName
      \o ") as " \o m.alias

C2_ExpectedTerms ==
    [k \in 1..(Len(dimensions) + Len(measures)) |->
        IF k <= Len(dimensions) THEN C2_DimensionTerm(dimensions[k])
        ELSE C2_MeasureTerm(measures[k - Len(dimensions)])]

C2_SelectListInOrder ==
    (Generated /\ dimensions # <<>> /\ measures # <<>> /\ C2_EntriesPresent)
      => SelectListIn(sqlQuery) = join(C2_ExpectedTerms, ", ")

C2_Witness ==
    /\ Generated
    /\ Len(dimensions) = 2 /\ dimensions[1] # dimensions[2]
    /\ Len(measures) = 2 /\ measures[1] # measures[2]
    /\ C2_EntriesPresent
    /\ fieldTableMap["orders.region"] # fieldTableMap["amount"]
    /\ SelectListIn(sqlQuery) = join(C2_ExpectedTerms, ", ")

(***************************************************************************)
(* C3: the worked scenario of one dimension orders.region and one measure  *)
(* sum(amount), both of table orders.                                      *)
(***************************************************************************)
C3_Scenario ==
    /\ Generated
    /\ dimensions = << [fieldId |-> "orders.region", fieldName |-> "region"] >>
    /\ measures = << [fieldId |-> "amount", fieldName |-> "amount",
                      aggregation |-> "sum", alias |-> "amount_sum"] >>
    /\ {"orders.region", "amount"} \subseteq DOMAIN fieldTableMap
    /\ fieldTableMap["orders.region"] = "orders"
    /\ fieldTableMap["amount"] = "orders"

C4_ResolvedTables ==
    {tableOf(fieldTableMap, dimensions[i].fieldId) : i \in DOMAIN dimensions}
      \cup {tableOf(fieldTableMap, measures[i].fieldId) : i \in DOMAIN measures}

C4_JoinMarkerIffSeveralTables ==
    (dimensions # <<>> /\ measures # <<>>) =>
      /\ FromTableIn(generateSqlQuery) = tableOf(fieldTableMap, dimensions[1].fieldId)
      /\ includes(generateSqlQuery, JoinMarker) <=> (Cardinality(C4_ResolvedTables) > 1)

(***************************************************************************)
(* C5: a tile saved with UI kind table (backend type chart, config.uiType  *)
(* and config.uiChartType table) opens for editing with tileType table,    *)
(* in both copies of TileEditor.tsx.                                       *)
(***************************************************************************)
C5_TableKindRoundTrip ==
    ( /\ copy \in {"A", "B"}
      /\ open
      /\ lastCall.op = "openDialog"
      /\ tile # NoTile
      /\ tile = persisted
      /\ tile.type = "chart"
      /\ Has(tile.config, "uiType") /\ tile.config.uiType = "table"
      /\ Has(tile.config, "uiChartType") /\ tile.config.uiChartType = "table" )
    => tileType = "table"

(***************************************************************************)
(* C6: the type of the DTO handed to createTile/updateTile is the image of *)
(* the UI kind under chart->chart, table->chart, metric->kpi, text->text,  *)
(* query->text, hence always one of chart, text, kpi; in every copy.       *)
(***************************************************************************)
C6_BackendKindOf(kind) ==
    IF kind \in {"chart", "table"} THEN "chart"
    ELSE IF kind = "metric" THEN "kpi"
    ELSE "text"

C6_PersistedTypeIsMapped ==
    [][ (saveCall = NoSave /\ saveCall' # NoSave) =>
          /\ saveCall'.dto.type \in BackendKinds
          /\ tileType \in UiKinds =>
               saveCall'.dto.type = C6_BackendKindOf(tileType) ]_vars

(***************************************************************************)
(* C7: a save attempt on a metric tile without measures leaves a message   *)
(* saying that a measure is required and hands nothing to createTile or    *)
(* updateTile.                                                             *)
(***************************************************************************)
C7_MetricWithoutMeasureRefused ==
    [][ (lastCall'.op = "handleSave" /\ tileType = "metric" /\ measures = <<>>) =>
          /\ includes(error', "measure is required")
          /\ saveCall' = NoSave ]_vars

(***************************************************************************)
(* C8: for kind chart or table, createTile/updateTile is called only when  *)
(* the dimension list and the measure list are both non-empty at the save  *)
(* attempt; in every copy.                                                 *)
(***************************************************************************)
C8_ChartAndTableNeedBothLists ==
    [][ (saveCall = NoSave /\ saveCall' # NoSave /\ tileType \in {"chart", "table"}) =>
          (dimensions # <<>> /\ measures # <<>>) ]_vars

(***************************************************************************)
(* C9: handleAddDimension leaves the dimension list as it is when the      *)
(* field's fieldId (table.name) is already selected; otherwise it appends  *)
(* one entry at the end and records fieldId -> table in fieldTableMap.     *)
(***************************************************************************)
C9_FieldId(field) == field.table \o "." \o field.name

C9_AddDimensionIdempotent ==
    [][ lastCall'.op = "handleAddDimension" =>
          LET field == lastCall'.field
              id == C9_FieldId(field)
          IN  IF \E i \in DOMAIN dimensions : dimensions[i].fieldId = id
              THEN dimensions' = dimensions
              ELSE /\ dimensions' = Append(dimensions,
                                           [fieldId |-> id, fieldName |-> field.name])
                   /\ id \in DOMAIN fieldTableMap'
                   /\ fieldTableMap'[id] = field.table ]_vars

\* the field added last stands first in a list of two: the call found it
\* selected and changed nothing
C9_Witness ==
    /\ lastCall.op = "handleAddDimension"
    /\ Len(dimensions) = 2
    /\ dimensions[1].fieldId = C9_FieldId(lastCall.field)
    /\ dimensions[2].fieldId # C9_FieldId(lastCall.field)
    /\ fieldTableMap[C9_FieldId(lastCall.field)] = lastCall.field.table

(***************************************************************************)
(* C10: handleAddMeasure checks numericness when it is called: for a field *)
(* that is not numeric the measure list and fieldTableMap stay as they     *)
(* are, so a measure is only ever appended for a field that is numeric at  *)
(* the time of the call, a field of a stale pool included.                 *)
(***************************************************************************)
C10_NonNumericNeverAdded ==
    [][ lastCall'.op = "handleAddMeasure" =>
          /\ ~isNumericField(copy, lastCall'.field) =>
               (measures' = measures /\ fieldTableMap' = fieldTableMap)
          /\ measures' # measures =>
               /\ isNumericField(copy, lastCall'.field)
               /\ Len(measures') = Len(measures) + 1
               /\ measures'[Len(measures')].fieldName = lastCall'.field.name ]_vars

\* a non-numeric field of the pool of another connection than the selected
\* one was clicked, and the measures selected before are still the list
C10_Witness ==
    /\ lastCall.op = "handleAddMeasure"
    /\ ~isNumericField(copy, lastCall.field)
    /\ measures # <<>>
    /\ \A i \in DOMAIN measures : measures[i].fieldName # lastCall.field.name

(***************************************************************************)
(* C11: isNumericField answers true exactly for a non-empty type whose     *)
(* lower-cased form contains one of int, integer, number, float, double,   *)
(* decimal, numeric, bigint, smallint, real, and false, without failing,   *)
(* for an empty or missing type; the same in every copy.                   *)
(***************************************************************************)
C11_AllowList ==
    {"int", "integer", "number", "float", "double", "decimal", "numeric",
     "bigint", "smallint", "real"}

C11_Expected(field) ==
    IF /\ Has(field, "type")
       /\ field.type # ""
       /\ \E t \in C11_AllowList : includes(toLowerCase(field.type), t)
    THEN "true" ELSE "false"

C11_NumericByAllowList ==
    lastCall.op = "isNumericField" =>
       lastCall.result = C11_Expected(databaseFields[1])

(***************************************************************************)
(* C12: for a numeric field handleAddMeasure does nothing only when a      *)
(* measure of that same field (same table, same column) is selected;       *)
(* otherwise it appends one measure with aggregation sum and alias         *)
(* name_sum at the end and records the field's table in fieldTableMap;     *)
(* also for two fields of different tables with the same column name.      *)
(***************************************************************************)
\* a measure of this column is selected and its recorded table is the field's
C12_MeasureOfFieldSelected(field) ==
    /\ \E i \in DOMAIN measures : measures[i].fieldName = field.name
    /\ field.name \in DOMAIN fieldTableMap
    /\ fieldTableMap[field.name] = field.table

C12_AddMeasureAppendsUnlessSelected ==
    [][ (lastCall'.op = "handleAddMeasure" /\ isNumericField(copy, lastCall'.field)) =>
          LET field == lastCall'.field
          IN  IF C12_MeasureOfFieldSelected(field)
              THEN measures' = measures
              ELSE /\ measures' = Append(measures,
                                         [fieldId |-> field.name,
                                          fieldName |-> field.name,
                                          aggregation |-> "sum",
                                          alias |-> field.name \o "_sum"])
                   /\ field.name \in DOMAIN fieldTableMap'
                   /\ fieldTableMap'[field.name] = field.table ]_vars

(***************************************************************************)
(* C13: opening a stored tile sets the UI kind to config.uiType when the   *)
(* tag is there and else to the image of the backend type under            *)
(* chart->chart, text->text, kpi->metric; the kind is then one of chart,   *)
(* table, metric, text, query; in both copies of TileEditor.tsx.           *)
(***************************************************************************)
C13_KindOf(t) ==
    IF Has(t.config, "uiType") THEN t.config.uiType
    ELSE IF t.type = "kpi" THEN "metric"
    ELSE IF t.type = "text" THEN "text"
    ELSE "chart"

C13_KindRestoredOnOpen ==
    (copy \in {"A", "B"} /\ lastCall.op = "openDialog" /\ tile # NoTile) =>
       (tileType = C13_KindOf(tile) /\ tileType \in UiKinds)

(***************************************************************************)
(* C14: when createTile/updateTile fails, handleSave leaves a non-empty    *)
(* error message, neither closes the dialog nor reports a save, leaves     *)
(* dimensions, measures, textRows, customQuery and connectionId as they    *)
(* are, and ends with saving = FALSE.                                      *)
(***************************************************************************)
C14_SelectionsKept ==
    /\ dimensions' = dimensions
    /\ measures' = measures
    /\ textRows' = textRows
    /\ customQuery' = customQuery
    /\ connectionId' = connectionId

C14_FailedSaveKeepsSession ==
    [][ /\ lastCall'.op = "handleSave" => C14_SelectionsKept
        /\ lastCall'.op = "saveReject" =>
              /\ error' # ""
              /\ open' = open
              /\ persisted' = persisted
              /\ C14_SelectionsKept
              /\ saving' = FALSE ]_vars

\* the save of a composed chart tile has just failed
C14_Witness ==
    /\ lastCall.op = "saveReject"
    /\ open
    /\ error # ""
    /\ ~saving
    /\ persisted = NoTile
    /\ dimensions # <<>> /\ measures # <<>>
    /\ connectionId = "c1"

(***************************************************************************)
(* C15: when the schema fetch fails, by a request error or by an error     *)
(* payload, loadConnectionSchema leaves an error message, an empty field   *)
(* list (no field of the connection selected before) and loading = FALSE;  *)
(* in every copy.                                                          *)
(***************************************************************************)
C15_FailedFetchClearsFields ==
    [][ lastCall'.op \in {"schemaReject", "schemaErrorPayload"} =>
          /\ error' # ""
          /\ databaseFields' = <<>>
          /\ loading' = FALSE ]_vars

(***************************************************************************)
(* C16: in the two-level schema path a failed column request adds no field *)
(* and does not stop the loop: the field list set at the end is the        *)
(* columns of every table whose request succeeded, in schema order then    *)
(* table order, and the failure raises no schema error.                    *)
(***************************************************************************)
RECURSIVE C16_ColumnsOfSucceeded(_, _, _)
C16_ColumnsOfSucceeded(tables, outcomes, k) ==
    IF k > Len(tables) THEN <<>>
    ELSE (IF outcomes[k] = "ok" THEN ColumnsOf(tables[k]) ELSE <<>>)
           \o C16_ColumnsOfSucceeded(tables, outcomes, k + 1)

C16_PartialSuccess ==
    [][ lastCall'.op = "columns" =>
          /\ error' = error
          /\ lastCall'.finished =>
                /\ Len(lastCall'.outcomes) = Len(TableQueue(lastCall'.conn))
                /\ databaseFields' =
                      C16_ColumnsOfSucceeded(TableQueue(lastCall'.conn),
                                             lastCall'.outcomes, 1)
          /\ ~lastCall'.finished =>
                (databaseFields' = databaseFields /\ schemaFetches' # <<>>) ]_vars

\* the request for public.orders failed, the other two succeeded
C16_Witness ==
    /\ lastCall.op = "columns"
    /\ lastCall.finished
    /\ lastCall.outcomes = <<"ok", "failed", "ok">>
    /\ error = ""
    /\ databaseFields = ColumnsOf("public.users") \o ColumnsOf("sales.deals")

(***************************************************************************)
(* C17: schema requests are neither cancelled nor tagged.  The answer of   *)
(* any request in flight is applied when it arrives, whichever connection  *)
(* is selected by then: it replaces databaseFields (and, where             *)
(* loadConnectionSchema sets the map, fieldTableMap) by the fields of the  *)
(* connection the request was made for.  So the state of C17_Witness is    *)
(* reachable: c2 selected after c1, c1's answer last, nothing in flight,   *)
(* and the available fields are those of c1.                               *)
(***************************************************************************)
C17_AnswerApplied(fetch) ==
    /\ databaseFields' = SchemaOf(fetch.conn)
    /\ copy = "A" => fieldTableMap' = schemaFieldTableMap(SchemaOf(fetch.conn))
    /\ connectionId' = connectionId

C17_StaleResponseApplied ==
    [][ lastCall'.op = "schemaResolve" =>
          \E i \in DOMAIN schemaFetches :
              /\ schemaFetches' = spliceOne(schemaFetches, i - 1)
              /\ C17_AnswerApplied(schemaFetches[i]) ]_vars

C17_Witness ==
    /\ lastCall.op = "schemaResolve"
    /\ connectionId = "c2"
    /\ schemaFetches = <<>>
    /\ ~loading
    /\ databaseFields = SchemaOf("c1")
    /\ copy = "A" => fieldTableMap = schemaFieldTableMap(SchemaOf("c1"))

(***************************************************************************)
(* C18: while the dialog stays open fieldTableMap never shrinks: a key     *)
(* that is present is still present, with a table name as its value, after *)
(* every later step (removing a dimension or measure, changing or clearing *)
(* the connection, the arrival of a schema answer).                        *)
(***************************************************************************)
C18_FieldTableMapNeverShrinks ==
    [][ (open /\ open') =>
          \A k \in DOMAIN fieldTableMap :
              k \in DOMAIN fieldTableMap' /\ fieldTableMap'[k] # "" ]_vars

(***************************************************************************)
(* C19: in both copies of TileEditor.tsx handleSave passes a tile of kind  *)
(* text, or of kind query outside query mode, to createTile/updateTile     *)
(* only if some text row has content that is not blank after trimming, and *)
(* a tile of kind query in query mode only if customQuery is not blank     *)
(* after trimming and a connection is selected.                            *)
(***************************************************************************)
C19_SomeRowNotBlank == \E i \in DOMAIN textRows : trim(textRows[i].content) # ""

C19_TextGate ==
    [][ ( /\ copy \in {"A", "B"}
          /\ lastCall'.op = "handleSave"
          /\ lastCall'.outcome = "sent"
          /\ saveCall = NoSave
          /\ saveCall' # NoSave ) =>
          /\ (tileType = "text" \/ (tileType = "query" /\ ~isQueryMode))
                => C19_SomeRowNotBlank
          /\ (tileType = "query" /\ isQueryMode)
                => (trim(customQuery) # "" /\ connectionId # "") ]_vars

(***************************************************************************)
(* C20: selections are discarded on cancel.  When the dialog was cancelled *)
(* after any adds of dimensions and measures and any edits of text rows    *)
(* and the editor is opened next for a new tile (no tile prop), the        *)
(* dimension list and the measure list are empty and textRows is the       *)
(* single initial empty header row, so that nothing of the cancelled       *)
(* session can reach createTile/updateTile.                                *)
(***************************************************************************)
C20_CancelDiscardsSelections ==
    [][ ( /\ lastCall.op = "cancel"
          /\ lastCall'.op = "openDialog"
          /\ tile' = NoTile ) =>
          /\ dimensions' = <<>>
          /\ measures' = <<>>
          /\ textRows' = InitialTextRows ]_vars

(***************************************************************************)
(* C21: handleRemoveDimension(index) and handleRemoveMeasure(index) remove *)
(* exactly the element at position index, keeping the order of the others, *)
(* when 0 <= index < length, and leave the list as it is for every other   *)
(* index, negative ones included.                                          *)
(***************************************************************************)
C21_Without(xs, index) ==
    IF 0 <= index /\ index < Len(xs)
    THEN [k \in 1..(Len(xs) - 1) |-> IF k <= index THEN xs[k] ELSE xs[k + 1]]
    ELSE xs

C21_RemoveByPosition ==
    [][ /\ lastCall'.op = "handleRemoveDimension" =>
              dimensions' = C21_Without(dimensions, lastCall'.index)
        /\ lastCall'.op = "handleRemoveMeasure" =>
              measures' = C21_Without(measures, lastCall'.index) ]_vars

(***************************************************************************)
(* C22: after any sequence of adds, removes and aggregation changes        *)
(* starting from empty selections the fieldIds of the dimension list are   *)
(* pairwise distinct and so are the fieldIds of the measure list.          *)
(***************************************************************************)
C22_Distinct(xs) ==
    \A i, j \in DOMAIN xs : xs[i].fieldId = xs[j].fieldId => i = j

C22_FieldIdsDistinct == C22_Distinct(dimensions) /\ C22_Distinct(measures)

\* two dimensions and the measure of orders.amount are selected, and the
\* add of customers.amount, whose fieldId is selected, was just refused
C22_Witness ==
    /\ Len(dimensions) = 2
    /\ Len(measures) = 1
    /\ measures[1].fieldId = "amount"
    /\ lastCall.op = "handleAddMeasure"
    /\ lastCall.field.name = "amount"
    /\ lastCall.field.table = "customers"
    /\ "amount" \in DOMAIN fieldTableMap
    /\ fieldTableMap["amount"] = "orders"

C24_OneTableAtATime(run) ==
    /\ run.at \in 1..Len(TableQueue(run.conn))
    /\ Len(run.outcomes) = run.at - 1

C24_RunsInOrder ==
    \A i \in DOMAIN schemaFetches :
        ~AtTopLevel(schemaFetches[i]) => C24_OneTableAtATime(schemaFetches[i])

C24_Sequential ==
    [][ lastCall'.op = "columns" =>
          /\ C24_RunsInOrder /\ C24_RunsInOrder'
          /\ IF lastCall'.finished
             THEN /\ Len(schemaFetches') = Len(schemaFetches) - 1
                  /\ Len(lastCall'.outcomes) = Len(TableQueue(lastCall'.conn))
             ELSE /\ databaseFields' = databaseFields
                  /\ fieldTableMap' = fieldTableMap
                  /\ loading' = loading
                  /\ \E i \in DOMAIN schemaFetches :
                        /\ ~AtTopLevel(schemaFetches[i])
                        /\ schemaFetches'[i].at = schemaFetches[i].at + 1
                        /\ \A j \in DOMAIN schemaFetches :
                              j # i => schemaFetches'[j] = schemaFetches[j] ]_vars

\* two tables of a run have ended, one of them with columns, the third is
\* awaited and nothing has been written yet
C24_Witness ==
    /\ copy = "A"
    /\ lastCall.op = "columns"
    /\ ~lastCall.finished
    /\ \E i \in DOMAIN schemaFetches :
          /\ ~AtTopLevel(schemaFetches[i])
          /\ schemaFetches[i].at = 3
          /\ schemaFetches[i].fields # <<>>
    /\ databaseFields = <<>>
    /\ loading

(***************************************************************************)
(* C25: for non-empty lists the GROUP BY clause of generateSqlQuery lists  *)
(* exactly the dimension columns, each as table.fieldName with the table   *)
(* resolved as in its SELECT term, in the order of the dimension list, and *)
(* holds no measure term.                                                  *)
(***************************************************************************)
C25_Table(d) ==
    IF d.fieldId \in DOMAIN fieldTableMap /\ fieldTableMap[d.fieldId] # ""
    THEN fieldTableMap[d.fieldId] ELSE "unknown_table"

C25_Columns ==
    join([k \in DOMAIN dimensions |->
             C25_Table(dimensions[k]) \o "." \o dimensions[k].fieldName], ", ")

C25_GroupByDimensions ==
    (Generated /\ dimensions # <<>> /\ measures # <<>>) =>
        LET groupBy == GroupByIn(sqlQuery)
            columns == C25_Columns
        IN  /\ groupBy = columns
            \* the same text opens the SELECT list
            /\ SubSeq(SelectListIn(sqlQuery), 1, Len(columns)) = columns
            /\ ~includes(groupBy, "(")
            /\ ~includes(groupBy, " as ")

\* two dimensions of different tables, one of them without a map entry
C25_Witness ==
    /\ Generated
    /\ Len(dimensions) = 2
    /\ measures # <<>>
    /\ dimensions[1].fieldId # dimensions[2].fieldId
    /\ \E k \in DOMAIN dimensions : dimensions[k].fieldId \notin DOMAIN fieldTableMap
    /\ \E k \in DOMAIN dimensions : dimensions[k].fieldId \in DOMAIN fieldTableMap
    /\ includes(sqlQuery, "GROUP BY ")

(***************************************************************************)
(* C26: every tile passed to createTile/updateTile whose config.textRows   *)
(* holds a row with isQuery = TRUE also carries a connectionId, after any  *)
(* toggling of a row's query mode, changing or clearing of the connection  *)
(* and saving.                                                             *)
(***************************************************************************)
C26_HasQueryRow(config) ==
    /\ Has(config, "textRows")
    /\ \E i \in DOMAIN config.textRows : config.textRows[i].isQuery

C26_QueryRowsHaveConnection ==
    (saveCall # NoSave /\ C26_HasQueryRow(saveCall.dto.config))
      => saveCall.dto.connectionId # ""

(***************************************************************************)
(* C27: in both copies of TileEditor.tsx every tile passed to createTile / *)
(* updateTile has config.chartType absent or one of bar, line, pie, donut; *)
(* the UI-only value table is never sent as chartType, also after opening  *)
(* a tile stored with uiChartType = table, changing the tile type, and     *)
(* changing the chart type.                                                *)
(***************************************************************************)
C27_ChartTypeIsBackendValue ==
    (copy \in {"A", "B"} /\ saveCall # NoSave /\ Has(saveCall.dto.config, "chartType"))
      => saveCall.dto.config.chartType \in {"bar", "line", "pie", "donut"}

(***************************************************************************)
(* C28: every data-bound tile (kind chart, table or metric) that passes    *)
(* the validation gate is sent with a non-empty generated SQL string in    *)
(* config.metadata.sqlQuery; in particular a metric tile with a measure    *)
(* and no dimension.                                                       *)
(***************************************************************************)
C28_DataBoundTileHasSql ==
    [][ ( /\ copy \in {"A", "B"}     \* the copies whose handleSave has a gate
          /\ lastCall'.op = "handleSave"
          /\ lastCall'.outcome = "sent"
          /\ saveCall = NoSave
          /\ saveCall' # NoSave
          /\ tileType \in {"chart", "table", "metric"}
          \* the lists the gate is to ask for (C8)
          /\ measures # <<>>
          /\ tileType \in {"chart", "table"} => dimensions # <<>> ) =>
          /\ Has(saveCall'.dto.config, "metadata")
          /\ saveCall'.dto.config.metadata.sqlQuery # "" ]_vars

(***************************************************************************)
(* C29: after any sequence of editor events (selecting a connection, a     *)
(* schema answer, opening a stored tile for editing, adding and removing   *)
(* fields) every selected dimension and measure has an entry in            *)
(* fieldTableMap under its fieldId, naming the table of the field it was   *)
(* made from, so that generateSqlQuery never writes unknown_table for a    *)
(* selected item.                                                          *)
(***************************************************************************)
\* a dimension's fieldId is table.name of its field
C29_DimensionResolved(d) ==
    /\ d.fieldId \in DOMAIN fieldTableMap
    /\ fieldTableMap[d.fieldId] \o "." \o d.fieldName = d.fieldId

\* a measure's fieldId is the bare column name: its entry names a table that
\* has such a column
C29_MeasureResolved(m) ==
    /\ m.fieldId \in DOMAIN fieldTableMap
    /\ \E f \in AllFields : f.name = m.fieldName /\ f.table = fieldTableMap[m.fieldId]

C29_SelectionResolved ==
    /\ \A i \in DOMAIN dimensions : C29_DimensionResolved(dimensions[i])
    /\ \A i \in DOMAIN measures : C29_MeasureResolved(measures[i])
    /\ ~includes(generateSqlQuery, "unknown_table")

(***************************************************************************)
(* C30: the loading flag is TRUE exactly while a request for the list of   *)
(* connections or for a schema, started by the editor, is in flight; in    *)
(* particular the end of the first of two overlapping schema requests does *)
(* not clear it while the second is pending.                               *)
(***************************************************************************)
C30_LoadingIffInFlight == loading <=> (connFetch \/ schemaFetches # <<>>)

====
